---- MODULE Spec2Model ----
(***************************************************************************)
(* A model of the Essence file system driver (grub-core/fs/esfs.c).        *)
(*                                                                         *)
(* On-disk structures are kept as raw bytes: a directory entry is a        *)
(* function 0..1023 -> 0..255 and every 64-bit quantity is its eight bytes, *)
(* least significant first, so that the driver's unsigned arithmetic wraps *)
(* at 2^64 exactly as grub_uint64_t does.                                  *)
(***************************************************************************)
EXTENDS Integers, Sequences, FiniteSets, TLC

(***************************************************************************)
(* Program constants                                                       *)
(***************************************************************************)
ESFS_DRIVER_VERSION == 10
ESFS_NODE_TYPE_FILE == 1
ESFS_NODE_TYPE_DIRECTORY == 2
ESFS_ATTRIBUTE_DATA == 1
ESFS_ATTRIBUTE_FILENAME == 2
ESFS_INDIRECTION_DIRECT == 1
ESFS_INDIRECTION_L1 == 2
ESFS_ATTRIBUTE_OFFSET == 96
\* sizeof (struct grub_esfs_direntry)
DirentrySize == 1024
\* sizeof (struct grub_esfs_attribute)
AttrHeaderSize == 4
\* sizeof (struct grub_esfs_attribute_data)
AttrDataSize == 32
\* sizeof (struct grub_esfs_superblock)
SuperblockSize == 8192
\* the device's sector size (GRUB_DISK_SECTOR_SIZE, the ">> 9" and "& 0x1ff")
SectorSize == 512

ESFS_SIGNATURE_STRING == <<33, 69, 115, 115, 101, 110, 99, 101, 70, 83, 50, 45, 45, 45, 45, 45>>
ESFS_DIRECTORY_ENTRY_SIGNATURE == <<68, 105, 114, 69, 110, 116, 114, 121>>

NULL == "NULL"
\* get_direntry_attribute's NULL, attributes being modelled by their offset
NoAttribute == -1

(***************************************************************************)
(* Bounds of the model                                                     *)
(***************************************************************************)
\* sectors of the modelled block device
DiskSectors == 40
\* extent records in a generated L1 list
MaxExtents == 3
\* the largest DIRECT byte count generated, in units of 8 bytes past 96
MaxDirectWords == 2
\* attributes in the longest generated attribute list
MaxChain == 40
\* slots in a generated directory
MaxSlots == 2
\* files open at a time
MaxOpen == 2

(***************************************************************************)
(* grub_uint64_t: eight bytes, least significant first                     *)
(***************************************************************************)
Byte == 0..255

U64Zero == <<0, 0, 0, 0, 0, 0, 0, 0>>
U64Max == <<255, 255, 255, 255, 255, 255, 255, 255>>

\* a natural number below 2^31 as a grub_uint64_t
U64(n) ==
  <<n % 256, (n \div 256) % 256, (n \div 65536) % 256, (n \div 16777216) % 256,
    0, 0, 0, 0>>

\* whether x is below 2^31, and then its value
Fits(x) == x[5] = 0 /\ x[6] = 0 /\ x[7] = 0 /\ x[8] = 0 /\ x[4] < 128
ToNat(x) == x[1] + 256 * x[2] + 65536 * x[3] + 16777216 * x[4]

\* a + b modulo 2^64
UAdd(a, b) ==
  LET c[i \in 1..8] == IF i = 1 THEN 0 ELSE (a[i-1] + b[i-1] + c[i-1]) \div 256
  IN  <<(a[1] + b[1] + c[1]) % 256, (a[2] + b[2] + c[2]) % 256,
        (a[3] + b[3] + c[3]) % 256, (a[4] + b[4] + c[4]) % 256,
        (a[5] + b[5] + c[5]) % 256, (a[6] + b[6] + c[6]) % 256,
        (a[7] + b[7] + c[7]) % 256, (a[8] + b[8] + c[8]) % 256>>

\* a - b modulo 2^64
USub(a, b) ==
  LET w[i \in 1..8] == IF i = 1 THEN 0
                       ELSE IF a[i-1] - b[i-1] - w[i-1] < 0 THEN 1 ELSE 0
  IN  <<(a[1] - b[1] - w[1] + 256) % 256, (a[2] - b[2] - w[2] + 256) % 256,
        (a[3] - b[3] - w[3] + 256) % 256, (a[4] - b[4] - w[4] + 256) % 256,
        (a[5] - b[5] - w[5] + 256) % 256, (a[6] - b[6] - w[6] + 256) % 256,
        (a[7] - b[7] - w[7] + 256) % 256, (a[8] - b[8] - w[8] + 256) % 256>>

\* a * b modulo 2^64
UMul(a, b) ==
  LET RECURSIVE col(_, _)
      col(k, i) == IF i > k THEN 0 ELSE a[i] * b[k + 1 - i] + col(k, i + 1)
      t[k \in 1..8] == col(k, 1) + (IF k = 1 THEN 0 ELSE t[k-1] \div 256)
  IN  <<t[1] % 256, t[2] % 256, t[3] % 256, t[4] % 256,
        t[5] % 256, t[6] % 256, t[7] % 256, t[8] % 256>>

\* unsigned comparison
ULt(a, b) ==
  \E i \in 1..8 : a[i] < b[i] /\ \A j \in (i+1)..8 : a[j] = b[j]
UGt(a, b) == ULt(b, a)
ULe(a, b) == ~ULt(b, a)

\* x >> 9
UShr9(x) ==
  LET y == <<x[2], x[3], x[4], x[5], x[6], x[7], x[8], 0, 0>>
  IN  <<(y[1] \div 2) + 128 * (y[2] % 2), (y[2] \div 2) + 128 * (y[3] % 2),
        (y[3] \div 2) + 128 * (y[4] % 2), (y[4] \div 2) + 128 * (y[5] % 2),
        (y[5] \div 2) + 128 * (y[6] % 2), (y[6] \div 2) + 128 * (y[7] % 2),
        (y[7] \div 2) + 128 * (y[8] % 2), (y[8] \div 2) + 128 * (y[9] % 2)>>

\* x & 0x1ff
ULow9(x) == x[1] + 256 * (x[2] % 2)

\* (x << 8) | b, as the extent decoder accumulates big-endian bytes
UShl8Or(x, b) == <<b, x[1], x[2], x[3], x[4], x[5], x[6], x[7]>>

\* bitwise and of two bytes
RECURSIVE ByteAnd(_, _)
ByteAnd(x, y) ==
  IF x = 0 \/ y = 0 THEN 0
  ELSE (x % 2) * (y % 2) + 2 * ByteAnd(x \div 2, y \div 2)

UAnd(a, b) ==
  <<ByteAnd(a[1], b[1]), ByteAnd(a[2], b[2]), ByteAnd(a[3], b[3]), ByteAnd(a[4], b[4]),
    ByteAnd(a[5], b[5]), ByteAnd(a[6], b[6]), ByteAnd(a[7], b[7]), ByteAnd(a[8], b[8])>>

(***************************************************************************)
(* Directory entries as raw bytes (struct grub_esfs_direntry)              *)
(***************************************************************************)
LE16(e, at) == e[at] + 256 * e[at + 1]
LE64(e, at) ==
  <<e[at], e[at+1], e[at+2], e[at+3], e[at+4], e[at+5], e[at+6], e[at+7]>>

DirentrySignature(e) == <<e[0], e[1], e[2], e[3], e[4], e[5], e[6], e[7]>>
DirentryAttributeOffset(e) == LE16(e, 28)
DirentryNodeType(e) == e[30]
DirentryFileSize(e) == LE64(e, 56)

\* a byte of memory at an offset from the start of a directory entry: past
\* the entry lies whatever the heap holds, here the byte g
MemByte(e, a, g) == IF a < DirentrySize THEN e[a] ELSE g

(***************************************************************************)
(* get_direntry_attribute: the offset of the attribute found, or NULL      *)
(***************************************************************************)
RECURSIVE AttributeWalk(_, _, _, _)
AttributeWalk(e, off, attrid, minsize) ==
  IF off > DirentrySize - AttrHeaderSize THEN NoAttribute
  ELSE IF off % 8 # 0 THEN NoAttribute
  ELSE IF LE16(e, off + 2) < AttrHeaderSize \/ LE16(e, off + 2) + off > DirentrySize
       THEN NoAttribute
  ELSE IF LE16(e, off) = attrid /\ LE16(e, off + 2) >= minsize THEN off
  ELSE AttributeWalk(e, off + LE16(e, off + 2), attrid, minsize)

\* the walk started at the first place an attribute may stand
get_direntry_attribute_FromFirst(e, attrid, minsize) ==
  AttributeWalk(e, ESFS_ATTRIBUTE_OFFSET, attrid, minsize)

get_direntry_attribute(e, attrid, minsize) ==
  AttributeWalk(e, DirentryAttributeOffset(e), attrid, minsize)

\* the values `off` has at the start of each turn of the loop of lines 161-175
RECURSIVE AttributeTrail(_, _, _, _)
AttributeTrail(e, off, attrid, minsize) ==
  IF off > DirentrySize - AttrHeaderSize THEN <<>>
  ELSE IF off % 8 # 0 THEN <<off>>
  ELSE IF LE16(e, off + 2) < AttrHeaderSize \/ LE16(e, off + 2) + off > DirentrySize
       THEN <<off>>
  ELSE IF LE16(e, off) = attrid /\ LE16(e, off + 2) >= minsize THEN <<off>>
  ELSE <<off>> \o AttributeTrail(e, off + LE16(e, off + 2), attrid, minsize)

(***************************************************************************)
(* Generated directory entries: the on-disk images the driver is run on    *)
(***************************************************************************)
LE16Bytes(v) == <<v % 256, v \div 256>>

\* the low n bytes of x, most significant first
BEBytes(x, n) == [i \in 1..n |-> x[n + 1 - i]]

\* a small signed integer as a two's-complement 64-bit pattern
SignedU64(v) == IF v >= 0 THEN U64(v) ELSE USub(U64Zero, U64(0 - v))

\* one extent record: header byte, sb delta bytes, cb count bytes
EncodeExtent(r) ==
  <<(r.sb - 1) + 8 * (r.cb - 1)>> \o BEBytes(SignedU64(r.delta), r.sb)
                                   \o BEBytes(U64(r.count), r.cb)

RECURSIVE EncodeExtents(_)
EncodeExtents(rs) ==
  IF rs = <<>> THEN <<>> ELSE EncodeExtent(Head(rs)) \o EncodeExtents(Tail(rs))

\* struct grub_esfs_attribute_data, `size` bytes long, its payload at dataOffset
DataAttribute(size, indirection, dataOffset, count, payload) ==
  LET head == LE16Bytes(ESFS_ATTRIBUTE_DATA) \o LE16Bytes(size)
                \o <<indirection, dataOffset % 256>> \o LE16Bytes(count)
  IN  [i \in 1..size |->
         IF i <= 8 THEN head[i]
         ELSE IF i > dataOffset /\ i - dataOffset <= Len(payload)
              THEN payload[i - dataOffset]
         ELSE 0]

\* struct grub_esfs_attribute_filename holding "name"
FilenameAttribute ==
  LE16Bytes(ESFS_ATTRIBUTE_FILENAME) \o LE16Bytes(16) \o LE16Bytes(4) \o <<0, 0>>
    \o <<110, 97, 109, 101, 0, 0, 0, 0>>

\* the bytes bs laid over e from offset `at`, cut at the end of the entry
PutBytes(e, at, bs) ==
  [i \in 0..(DirentrySize - 1) |->
     IF i >= at /\ i < at + Len(bs) THEN bs[i - at + 1] ELSE e[i]]

\* a directory entry: header fields, then the attribute bytes
MakeDirentry(signature, attributeOffset, nodeType, fileSize, attributes) ==
  LET z  == [i \in 0..(DirentrySize - 1) |-> 0]
      e1 == PutBytes(z, 0, signature)
      e2 == PutBytes(e1, 28, LE16Bytes(attributeOffset) \o <<nodeType, 2>>)
      e3 == PutBytes(e2, 56, fileSize)
  IN  PutBytes(e3, attributeOffset, attributes)

\* the catalogue of extent lists: record j of list `cat`
ExtentOf(cat, j) ==
  IF cat = "A"
  THEN [sb |-> 1, cb |-> 1, count |-> 1,
        delta |-> IF j = 1 THEN 5 ELSE IF j = 2 THEN 2 ELSE IF j = 3 THEN 10 ELSE 0 - 3]
  ELSE IF j = 1 THEN [sb |-> 2, cb |-> 2, count |-> 2, delta |-> 9]
  ELSE IF j = 2 THEN [sb |-> 1, cb |-> 1, count |-> 1, delta |-> 0 - 4]
  ELSE IF j = 3 THEN [sb |-> 8, cb |-> 1, count |-> 1, delta |-> 1]
  ELSE [sb |-> 1, cb |-> 1, count |-> 1, delta |-> 0 - 2]

ExtentList(cat, n) == [j \in 1..n |-> ExtentOf(cat, j)]

RECURSIVE BlocksOf(_)
BlocksOf(rs) == IF rs = <<>> THEN 0 ELSE Head(rs).count + BlocksOf(Tail(rs))

\* the embedded bytes of a DIRECT attribute
DirectPayload(n) == [i \in 1..n |-> 100 + i]

\* the smallest 8-aligned attribute size whose walk accepts a list of L bytes
SizeFit(dataOffset, L) == 8 * ((2 * dataOffset + L + 7) \div 8)

\* A node description: the fields of its entry and of its DATA attribute
NodeOf(ao, size, ind, dataOffset, count, extents, fileSize, bs, hasData) ==
  [ao |-> ao, size |-> size, ind |-> ind, dataOffset |-> dataOffset, count |-> count,
   extents |-> extents, fileSize |-> fileSize, bsize |-> bs, hasData |-> hasData]

DirectNodes ==
  { NodeOf(ao, size, ESFS_INDIRECTION_DIRECT, AttrDataSize, count, <<>>, U64(fs),
           SectorSize, TRUE) :
      ao \in {ESFS_ATTRIBUTE_OFFSET, 984}, size \in {40, 48},
      count \in {0, 5, 8 * MaxDirectWords}, fs \in {5, 8 * MaxDirectWords} }

L1Params ==
  { p \in [cat : {"A", "B"}, n : 1..MaxExtents, more : {0, 1}, short : BOOLEAN,
           bs : {SectorSize, 2 * SectorSize}, less : {0, 8}] :
      /\ p.bs # SectorSize => (p.cat = "A" /\ p.more = 0 /\ ~p.short)
      /\ p.short => p.more = 0 }

L1Nodes ==
  { LET rs == ExtentList(p.cat, p.n)
    IN  NodeOf(ESFS_ATTRIBUTE_OFFSET,
               IF p.short THEN 72 ELSE SizeFit(AttrDataSize, Len(EncodeExtents(rs))),
               ESFS_INDIRECTION_L1, AttrDataSize, p.n + p.more, rs,
               U64(BlocksOf(rs) * p.bs - p.less), p.bs, TRUE) : p \in L1Params }

OddNodes ==
  { \* an indirection that is neither DIRECT nor L1
    NodeOf(ESFS_ATTRIBUTE_OFFSET, 40, 7, AttrDataSize, 5, <<>>, U64(5), SectorSize, TRUE),
    NodeOf(ESFS_ATTRIBUTE_OFFSET, 40, 0, AttrDataSize, 5, <<>>, U64(5), SectorSize, TRUE),
    \* no DATA attribute at all
    NodeOf(ESFS_ATTRIBUTE_OFFSET, 40, 0, 0, 0, <<>>, U64(5), SectorSize, FALSE),
    \* dataOffset past the attribute
    NodeOf(ESFS_ATTRIBUTE_OFFSET, 40, ESFS_INDIRECTION_L1, 48, 1, <<>>, U64(SectorSize),
           SectorSize, TRUE),
    \* an extent list that starts where the attribute ends
    NodeOf(ESFS_ATTRIBUTE_OFFSET, 32, ESFS_INDIRECTION_L1, 32, 1, <<>>, U64(SectorSize),
           SectorSize, TRUE),
    \* an extent whose delta leads below block 0
    NodeOf(ESFS_ATTRIBUTE_OFFSET, 72, ESFS_INDIRECTION_L1, AttrDataSize, 1,
           <<[sb |-> 1, cb |-> 1, count |-> 1, delta |-> 0 - 3]>>, U64(SectorSize),
           SectorSize, TRUE),
    \* the same, the attribute being the last 32 bytes of the entry
    NodeOf(992, 32, ESFS_INDIRECTION_L1, 32, 1, <<>>, U64(SectorSize), SectorSize, TRUE) }

ReadNodes == DirectNodes \cup L1Nodes \cup OddNodes

\* the 1024 bytes of a described node
DirentryOf(nd) ==
  MakeDirentry(ESFS_DIRECTORY_ENTRY_SIGNATURE, nd.ao, ESFS_NODE_TYPE_FILE, nd.fileSize,
    (IF nd.hasData
     THEN DataAttribute(nd.size, nd.ind, nd.dataOffset, nd.count,
            IF nd.ind = ESFS_INDIRECTION_L1 THEN EncodeExtents(nd.extents)
            ELSE DirectPayload(IF nd.count < nd.size - nd.dataOffset THEN nd.count
                               ELSE nd.size - nd.dataOffset))
     ELSE <<>>) \o FilenameAttribute)

\* positions and lengths the callers pass
PosFor(nd) ==
  {U64Zero, U64(1), U64(nd.bsize), nd.fileSize, UAdd(nd.fileSize, U64(1))}
LenFor(nd, pos) ==
  {U64(8), U64(nd.bsize), nd.fileSize, U64Max}
    \cup (IF ULe(pos, nd.fileSize) THEN {USub(nd.fileSize, pos)} ELSE {})

(***************************************************************************)
(* Directory slots: the child entries the device holds, 1024 bytes each    *)
(***************************************************************************)
\* struct grub_esfs_attribute_filename: `length` name bytes, all `ch`
NamedAttribute(size, length, ch) ==
  LE16Bytes(ESFS_ATTRIBUTE_FILENAME) \o LE16Bytes(size) \o LE16Bytes(length) \o <<0, 0>>
    \o [i \in 1..(size - 8) |-> ch]

ChildEntry(signature, nodeType, attributes) ==
  MakeDirentry(signature, ESFS_ATTRIBUTE_OFFSET, nodeType, U64(5), attributes)

\* the slots, by kind: 1 a file, 2 a directory, 3 a wrong signature, 4 no
\* FILENAME, 5 a FILENAME longer than its attribute, 6 an unknown nodeType,
\* 7 a 4-byte attribute before the FILENAME, 8 the longest attribute list
SlotLibrary ==
  << ChildEntry(ESFS_DIRECTORY_ENTRY_SIGNATURE, ESFS_NODE_TYPE_FILE,
                NamedAttribute(16, 1, 97) \o DataAttribute(40, ESFS_INDIRECTION_DIRECT,
                                                           AttrDataSize, 5, DirectPayload(5))),
     ChildEntry(ESFS_DIRECTORY_ENTRY_SIGNATURE, ESFS_NODE_TYPE_DIRECTORY,
                DataAttribute(AttrDataSize, ESFS_INDIRECTION_DIRECT, AttrDataSize, 0, <<>>)
                  \o NamedAttribute(16, 2, 98)),
     ChildEntry([ESFS_DIRECTORY_ENTRY_SIGNATURE EXCEPT ![8] = 0], ESFS_NODE_TYPE_FILE,
                NamedAttribute(16, 1, 99)),
     ChildEntry(ESFS_DIRECTORY_ENTRY_SIGNATURE, ESFS_NODE_TYPE_FILE,
                DataAttribute(AttrDataSize, ESFS_INDIRECTION_DIRECT, AttrDataSize, 0, <<>>)),
     ChildEntry(ESFS_DIRECTORY_ENTRY_SIGNATURE, ESFS_NODE_TYPE_FILE,
                NamedAttribute(16, 9, 101)),
     ChildEntry(ESFS_DIRECTORY_ENTRY_SIGNATURE, 3, NamedAttribute(16, 1, 102)),
     ChildEntry(ESFS_DIRECTORY_ENTRY_SIGNATURE, ESFS_NODE_TYPE_FILE,
                <<9, 0, 4, 0>> \o NamedAttribute(16, 1, 103)),
     MakeDirentry(ESFS_DIRECTORY_ENTRY_SIGNATURE, DirentrySize - 8 * MaxChain,
                  ESFS_NODE_TYPE_FILE, U64(5),
                  [i \in 1..(8 * MaxChain - 4) |->
                     IF i = 8 * MaxChain - 5 THEN 4
                     ELSE IF (i - 1) % 8 = 0 THEN 9 ELSE IF (i - 1) % 8 = 2 THEN 8 ELSE 0]) >>

\* the 1024-byte block of the device at which the slots start
LibraryBlock == 12

(***************************************************************************)
(* The block device (grub_disk_read): its contents and its range check     *)
(***************************************************************************)
\* the byte stored at a physical byte address of the device
DiskByte(a) ==
  LET start == LibraryBlock * DirentrySize
  IN  IF a >= start /\ a < start + Len(SlotLibrary) * DirentrySize
      THEN SlotLibrary[(a - start) \div DirentrySize + 1][(a - start) % DirentrySize]
      ELSE (a + 7 * (a \div SectorSize)) % 251

\* the n bytes starting at byte `offset` of `sector`
DiskBytes(sector, offset, n) ==
  [i \in 1..n |-> DiskByte(sector * SectorSize + offset + i - 1)]

\* whether a read of `size` bytes at (sector, offset) lies on the device
DiskInRange(total, sector, offset, size) ==
  /\ Fits(sector) /\ Fits(size)
  /\ ToNat(sector) < total
  /\ (offset + ToNat(size) + SectorSize - 1) \div SectorSize <= total - ToNat(sector)

(***************************************************************************)
(* State                                                                   *)
(***************************************************************************)
VARIABLES
  node,        \* the description the entry under `direntry` was generated from
  direntry,    \* node->direntry, 1024 raw bytes
  beyond,      \* the byte the heap holds past the end of the entry
  bsize,       \* node->data->bsize
  disk,        \* node->data->disk: read_hook, read_hook_data, total_sectors
  grub_errno,  \* the error code and message last raised
  pc,          \* where control is
  args,        \* grub_esfs_read_file's read_hook, read_hook_data, pos, len
  buf,         \* the caller's buffer: the cells written so far
  rf,          \* grub_esfs_read_file's locals
  ret,         \* grub_esfs_read_file's return value, a grub_ssize_t bit pattern
  nreads,      \* grub_disk_read calls issued by the current call
  fetched,     \* attribute-relative offsets the extent decoder has read
  copied,      \* the source range of the DIRECT grub_memcpy
  split,       \* the two-part reader: its split point, stage and results
  image,       \* what the device holds: the superblock and the root's entry
  sblock,      \* data->sblock, once read
  mret,        \* grub_esfs_mount's return value
  heap,        \* live grub_malloc allocations
  mreads,      \* the block-device reads grub_esfs_mount has issued
  found,       \* get_direntry_attribute's arguments and what it returned
  it,          \* grub_esfs_iterate_dir's locals and what it has done
  facade       \* the module's reference count, open files and live volumes

vars == <<node, direntry, beyond, bsize, disk, grub_errno, pc, args, buf, rf, ret,
          nreads, fetched, copied, split, image, sblock, mret, heap, mreads,
          found, it, facade>>

mvars == <<image, sblock, mret, heap, mreads>>
rvars == <<node, beyond, args, buf, rf, ret, nreads, fetched, copied, split>>
xvars == <<found, it, facade>>

MinusOne == U64Max
Stale == 0 - 1
HeapBytes == {0, 255}

NoError == [code |-> "GRUB_ERR_NONE", msg |-> ""]
grub_error(code, msg) == [code |-> code, msg |-> msg]

NoLocals ==
  [d |-> NoAttribute, len |-> U64Zero, data_size |-> 0, count |-> 0, ext_off |-> 0,
   cur_pos |-> U64Zero, already_read |-> U64Zero, cur_start |-> U64Zero, extnum |-> 0,
   sector |-> U64Zero, offset |-> 0, to_read |-> U64Zero, count_bytes |-> U64Zero]

NoArgs == [read_hook |-> NULL, read_hook_data |-> NULL, pos |-> U64Zero, len |-> U64Zero]

(***************************************************************************)
(* grub_esfs_read_file                                                     *)
(***************************************************************************)
\* the position test letting one position past the end through
PastEnd_OffByOne(pos, fileSize) == UGt(pos, UAdd(fileSize, U64(1)))

\* the position test taking the end of the file itself for past the end
PastEnd_AtEnd(pos, fileSize) == ULe(fileSize, pos)

\* line 200: the position test that ends the call with -1
PastEnd(pos, fileSize) == UGt(pos, fileSize)

\* lines 203-204: len cut to what the file holds from pos on
ClampLen(pos, len, fileSize) ==
  IF UGt(UAdd(len, pos), fileSize) THEN USub(fileSize, pos) ELSE len

\* lines 210-212: how many bytes a DIRECT attribute is taken to hold
DirectMaxSize(count, data_size) == IF count < data_size THEN data_size ELSE count

\* the DIRECT path installing the caller's hook as the extent path does
DirectHook_Installed(slot_hook, read_hook) == read_hook

\* line 217: what the DIRECT path leaves in the device's hook slot
DirectHook(slot_hook, read_hook) == slot_hook

\* line 264: where in the caller's buffer an extent's bytes are put
ReadTarget(already_read) == 0

\* line 266: what the slot holds once a block-device read has succeeded
HookAfterRead(read_hook) == NULL

\* lines 242-245, 246-247: n big-endian bytes at entry offset `at`, onto acc
RECURSIVE Accumulate(_, _, _, _, _)
Accumulate(acc, e, at, n, g) ==
  IF n = 0 THEN acc
  ELSE Accumulate(UShl8Or(acc, MemByte(e, at, g)), e, at + 1, n - 1, g)

\* the delta decoded without its sign
DecodeStart_Unsigned(e, at, n, g) == Accumulate(U64Zero, e, at, n, g)

\* lines 241-245: the delta, the accumulator seeded with the sign
DecodeStart(e, at, n, g) ==
  Accumulate(IF MemByte(e, at, g) >= 128 THEN U64Max ELSE U64Zero, e, at, n, g)
DecodeCount(e, at, n, g) == Accumulate(U64Zero, e, at, n, g)

\* the cells of b with `bytes` put from cell `at` on
WriteBuf(b, at, bytes) ==
  LET top == IF Len(b) > at + Len(bytes) THEN Len(b) ELSE at + Len(bytes)
  IN  [i \in 1..top |->
         IF i > at /\ i <= at + Len(bytes) THEN bytes[i - at]
         ELSE IF i <= Len(b) THEN b[i] ELSE Stale]

Return(v) == ret' = v /\ pc' = "ret"

\* lines 187-231: from the call to the return of the DIRECT path or the
\* start of the extent walk
grub_esfs_read_file_enter ==
  /\ pc = "call"
  /\ UNCHANGED <<node, direntry, beyond, bsize, args, nreads, fetched, split, mvars, xvars>>
  /\ LET g == beyond
         d == get_direntry_attribute(direntry, ESFS_ATTRIBUTE_DATA, AttrDataSize)
         size == LE16(direntry, d + 2)
         indirection == direntry[d + 4]
         dataOffset == direntry[d + 5]
         count == LE16(direntry, d + 6)
         fileSize == DirentryFileSize(direntry)
         len == ClampLen(args.pos, args.len, fileSize)
         data_size == size - dataOffset
         max_size == DirectMaxSize(count, data_size)
         room == USub(U64(max_size), args.pos)
         dlen == IF UGt(len, room) THEN room ELSE len
         src == dataOffset + ToNat(args.pos)
     IN
       IF d = NoAttribute
       THEN /\ grub_errno' = grub_error("GRUB_ERR_BAD_FS", "extents are missing")
            /\ Return(MinusOne)
            /\ UNCHANGED <<disk, buf, rf, copied>>
       ELSE IF dataOffset > size
       THEN /\ grub_errno' = grub_error("GRUB_ERR_BAD_FS", "data offset is too large")
            /\ Return(MinusOne)
            /\ UNCHANGED <<disk, buf, rf, copied>>
       ELSE IF PastEnd(args.pos, fileSize)
       THEN /\ Return(MinusOne)
            /\ UNCHANGED <<disk, grub_errno, buf, rf, copied>>
       ELSE IF indirection = ESFS_INDIRECTION_DIRECT
       THEN IF UGt(args.pos, U64(max_size))
            THEN /\ Return(MinusOne)
                 /\ UNCHANGED <<disk, grub_errno, buf, rf, copied>>
            ELSE /\ buf' = WriteBuf(buf, 0,
                             [i \in 1..ToNat(dlen) |-> MemByte(direntry, d + src + i - 1, g)])
                 /\ copied' = [from |-> src, n |-> ToNat(dlen)]
                 /\ disk' = [disk EXCEPT !.read_hook = DirectHook(@, args.read_hook)]
                 /\ Return(dlen)
                 /\ UNCHANGED <<grub_errno, rf>>
       ELSE IF indirection # ESFS_INDIRECTION_L1
       THEN /\ grub_errno' = grub_error("GRUB_ERR_BAD_FS", "unknown redirection")
            /\ Return(MinusOne)
            /\ UNCHANGED <<disk, buf, rf, copied>>
       ELSE /\ rf' = [NoLocals EXCEPT !.d = d, !.len = len, !.data_size = data_size,
                                      !.count = count, !.ext_off = dataOffset]
            /\ pc' = "loop"
            /\ UNCHANGED <<disk, grub_errno, buf, ret, copied>>

\* lines 233-261: one turn of the extent walk, up to the block-device read
grub_esfs_read_file_extent ==
  /\ pc = "loop"
  /\ UNCHANGED <<node, direntry, beyond, bsize, args, nreads, buf, copied, grub_errno,
                 split, mvars, xvars>>
  /\ LET g == beyond IN
     IF ~(ULt(rf.already_read, rf.len) /\ rf.extnum < rf.count)
     THEN /\ Return(rf.already_read)
          /\ UNCHANGED <<disk, rf, fetched>>
     ELSE
       LET header == MemByte(direntry, rf.d + rf.ext_off, g)
           startBytes == (header % 8) + 1
           countBytes == ((header \div 8) % 8) + 1
           off1 == rf.ext_off + 1
           off2 == off1 + startBytes + countBytes
           start == DecodeStart(direntry, rf.d + off1, startBytes, g)
           count == DecodeCount(direntry, rf.d + off1 + startBytes, countBytes, g)
           cur_start == UAdd(rf.cur_start, start)
           count_bytes == UMul(count, bsize)
           add_off == IF ULt(rf.cur_pos, args.pos) THEN USub(args.pos, rf.cur_pos)
                      ELSE U64Zero
           left == USub(rf.len, rf.already_read)
           to_read == IF UGt(left, USub(count_bytes, add_off))
                      THEN USub(count_bytes, add_off) ELSE left
       IN
         IF off2 > rf.data_size
         THEN /\ Return(rf.already_read)
              /\ fetched' = fetched \cup {rf.ext_off}
              /\ UNCHANGED <<disk, rf>>
         ELSE IF ULt(UAdd(rf.cur_pos, count_bytes), args.pos)
         THEN /\ rf' = [rf EXCEPT !.ext_off = off2, !.cur_start = cur_start,
                                  !.cur_pos = UAdd(rf.cur_pos, count_bytes),
                                  !.extnum = rf.extnum + 1]
              /\ fetched' = fetched \cup (rf.ext_off..(off2 - 1))
              /\ UNCHANGED <<disk, ret, pc>>
         ELSE /\ rf' = [rf EXCEPT !.ext_off = off2, !.cur_start = cur_start,
                                  !.count_bytes = count_bytes, !.to_read = to_read,
                                  !.sector = UAdd(UMul(cur_start, UShr9(bsize)),
                                                  UShr9(add_off)),
                                  !.offset = ULow9(add_off)]
              /\ fetched' = fetched \cup (rf.ext_off..(off2 - 1))
              /\ disk' = [disk EXCEPT !.read_hook = args.read_hook,
                                      !.read_hook_data = args.read_hook_data]
              /\ pc' = "disk"
              /\ UNCHANGED ret

\* lines 262-268: grub_disk_read returns, and the walk goes on or ends
grub_esfs_read_file_disk ==
  /\ pc = "disk"
  /\ nreads' = nreads + 1
  /\ UNCHANGED <<node, direntry, beyond, bsize, args, fetched, copied, split, mvars, xvars>>
  /\ \/ /\ ~DiskInRange(disk.total_sectors, rf.sector, rf.offset, rf.to_read)
        /\ grub_errno' = grub_error("GRUB_ERR_OUT_OF_RANGE", "out of disk")
        /\ Return(MinusOne)
        /\ UNCHANGED <<disk, buf, rf>>
     \/ /\ DiskInRange(disk.total_sectors, rf.sector, rf.offset, rf.to_read)
        /\ grub_errno' = grub_error("GRUB_ERR_READ_ERROR", "failure reading sector")
        /\ Return(MinusOne)
        /\ UNCHANGED <<disk, buf, rf>>
     \/ /\ DiskInRange(disk.total_sectors, rf.sector, rf.offset, rf.to_read)
        /\ buf' = WriteBuf(buf, ReadTarget(ToNat(rf.already_read)),
                           DiskBytes(ToNat(rf.sector), rf.offset, ToNat(rf.to_read)))
        /\ disk' = [disk EXCEPT !.read_hook = HookAfterRead(args.read_hook)]
        /\ rf' = [rf EXCEPT !.already_read = UAdd(rf.already_read, rf.to_read),
                            !.cur_pos = UAdd(rf.cur_pos, rf.count_bytes),
                            !.extnum = rf.extnum + 1]
        /\ pc' = "loop"
        /\ UNCHANGED <<grub_errno, ret>>

(***************************************************************************)
(* Callers                                                                 *)
(***************************************************************************)
StartCall(a) ==
  /\ args' = a
  /\ buf' = <<>>
  /\ rf' = NoLocals
  /\ ret' = U64Zero
  /\ nreads' = 0
  /\ fetched' = {}
  /\ copied' = [from |-> 0, n |-> 0]
  /\ grub_errno' = NoError
  /\ pc' = "call"

\* any caller: any position, length and hook, call after call
CallReadFile ==
  /\ pc \in {"idle", "ret"}
  /\ \E pos \in PosFor(node), hook \in {NULL, "hook"} :
       \E len \in LenFor(node, pos) :
         StartCall([read_hook |-> hook,
                    read_hook_data |-> IF hook = NULL THEN NULL ELSE "ctx",
                    pos |-> pos, len |-> len])
  /\ UNCHANGED <<node, direntry, beyond, bsize, disk, split, mvars, xvars>>

(***************************************************************************)
(* The two-part reader: grub_esfs_read called for the whole file, then for *)
(* its first k bytes and for the rest                                      *)
(***************************************************************************)
\* the bytes a returned call has delivered
Delivered ==
  IF ret = MinusOne THEN <<>>
  ELSE [i \in 1..ToNat(ret) |-> IF i <= Len(buf) THEN buf[i] ELSE Stale]

Result ==
  [pos |-> args.pos, len |-> args.len, ret |-> ret, errno |-> grub_errno.code,
   bytes |-> Delivered]

SplitPoints(nd) ==
  {k \in {U64Zero, U64(1), U64(nd.bsize), U64(nd.bsize + 8), nd.fileSize} :
     ULe(k, nd.fileSize)}

\* lines 475-483: file->offset and len as the reader's stage has them
grub_esfs_read ==
  /\ pc \in {"idle", "ret"}
  /\ split.stage < 3
  /\ split' = [split EXCEPT !.stage = @ + 1,
                            !.saved = IF pc = "ret" THEN Append(@, Result) ELSE @]
  /\ StartCall([read_hook |-> NULL, read_hook_data |-> NULL,
                pos |-> IF split.stage = 2 THEN split.k ELSE U64Zero,
                len |-> IF split.stage = 0 THEN node.fileSize
                        ELSE IF split.stage = 1 THEN split.k
                        ELSE USub(node.fileSize, split.k)])
  /\ UNCHANGED <<node, direntry, beyond, bsize, disk, mvars, xvars>>

SplitDone ==
  /\ pc = "ret"
  /\ split.stage = 3
  /\ split' = [split EXCEPT !.stage = 4, !.saved = Append(@, Result)]
  /\ pc' = "done"
  /\ UNCHANGED <<node, direntry, beyond, bsize, disk, grub_errno, args, buf, rf, ret,
                 nreads, fetched, copied, mvars, xvars>>

(***************************************************************************)
(* grub_esfs_mount                                                         *)
(***************************************************************************)
\* 0xffffe00, the bits a block size may have
BlockSizeBits == 268434944

\* the mask as ~0xffffe00U would give it: widened with zeros
BlockSizeMask_Unsigned ==
  LET b == U64(BlockSizeBits)
  IN  <<255 - b[1], 255 - b[2], 255 - b[3], 255 - b[4], 0, 0, 0, 0>>

\* line 307: ~0xffffe00 is an int, widened to 64 bits with its sign
BlockSizeMask ==
  LET b == U64(BlockSizeBits)
      s == IF 255 - b[4] >= 128 THEN 255 ELSE 0
  IN  <<255 - b[1], 255 - b[2], 255 - b[3], 255 - b[4], s, s, s, s>>

\* lines 305-307: the block sizes the header check refuses
BlockSizeRejected(blockSize) ==
  blockSize = U64Zero \/ UAnd(blockSize, BlockSizeMask) # U64Zero

\* the header check without its test of blockCount
HeaderRejected_NoBlockCount(sb) ==
  \/ sb.signature # ESFS_SIGNATURE_STRING
  \/ sb.requiredReadVersion > ESFS_DRIVER_VERSION
  \/ BlockSizeRejected(sb.blockSize)

\* lines 303-308: the header check
HeaderRejected(sb) ==
  \/ sb.signature # ESFS_SIGNATURE_STRING
  \/ sb.requiredReadVersion > ESFS_DRIVER_VERSION
  \/ BlockSizeRejected(sb.blockSize)
  \/ sb.blockCount = U64Zero

\* lines 275-284
esfs_check_direntry(e) == DirentrySignature(e) = ESFS_DIRECTORY_ENTRY_SIGNATURE

\* lines 335-337: the error the fail label leaves
FailErrno(e) ==
  IF e.code = "GRUB_ERR_OUT_OF_RANGE"
  THEN grub_error("GRUB_ERR_BAD_FS", "not an esfs filesystem")
  ELSE e

\* lines 335-340
MountFail(e) ==
  /\ grub_errno' = FailErrno(e)
  /\ heap' = heap - 1
  /\ mret' = NULL
  /\ pc' = "m_ret"

Uninit == "uninitialised"

\* lines 291-293
grub_esfs_mount_alloc ==
  /\ pc = "mount"
  /\ UNCHANGED <<direntry, bsize, disk, image, sblock, mreads, rvars, xvars>>
  /\ \/ /\ heap' = heap + 1
        /\ pc' = "m_super"
        /\ UNCHANGED <<grub_errno, mret>>
     \/ /\ grub_errno' = grub_error("GRUB_ERR_OUT_OF_MEMORY", "out of memory")
        /\ mret' = NULL
        /\ pc' = "m_ret"
        /\ UNCHANGED heap

\* a block-device read's outcomes: out of range, a read error, or success
DiskOutcomes(total, sector, offset, size) ==
  IF DiskInRange(total, sector, offset, size)
  THEN {"ok", "GRUB_ERR_READ_ERROR"}
  ELSE {"GRUB_ERR_OUT_OF_RANGE"}

\* lines 296-320: the superblock is read and its header checked
grub_esfs_mount_super ==
  /\ pc = "m_super"
  /\ UNCHANGED <<direntry, disk, image, rvars, xvars>>
  /\ \E r \in DiskOutcomes(disk.total_sectors, U64(16), 0, U64(SuperblockSize)) :
       /\ mreads' = Append(mreads, [sector |-> U64(16), offset |-> 0,
                                    size |-> SuperblockSize, result |-> r])
       /\ IF r # "ok"
          THEN /\ MountFail(grub_error(r, "disk read failed"))
               /\ UNCHANGED <<sblock, bsize>>
          ELSE /\ sblock' = image.sblock
               /\ IF HeaderRejected(image.sblock)
                  THEN /\ MountFail(grub_error("GRUB_ERR_BAD_FS", "not an esfs filesystem"))
                       /\ UNCHANGED bsize
                  ELSE /\ bsize' = image.sblock.blockSize
                       /\ pc' = "m_root"
                       /\ UNCHANGED <<grub_errno, heap, mret>>

\* lines 322-333: the root's entry is read and checked
grub_esfs_mount_root ==
  /\ pc = "m_root"
  /\ UNCHANGED <<bsize, disk, image, sblock, rvars, xvars>>
  /\ LET sector == UMul(sblock.root.block, UShr9(bsize))
         offset == sblock.root.offset_into_block
     IN  \E r \in DiskOutcomes(disk.total_sectors, sector, offset, U64(DirentrySize)) :
           /\ mreads' = Append(mreads, [sector |-> sector, offset |-> offset,
                                        size |-> DirentrySize, result |-> r])
           /\ IF r # "ok"
              THEN /\ MountFail(grub_error(r, "disk read failed"))
                   /\ UNCHANGED direntry
              ELSE /\ direntry' = image.root
                   /\ IF ~esfs_check_direntry(image.root)
                      THEN MountFail(grub_error("GRUB_ERR_BAD_FS",
                                                "incorrect directory signature"))
                      ELSE /\ mret' = "data"
                           /\ pc' = "m_ret"
                           /\ UNCHANGED <<grub_errno, heap>>

\* a caller probes the device
CallMount ==
  /\ pc = "idle"
  /\ pc' = "mount"
  /\ grub_errno' = NoError
  /\ UNCHANGED <<direntry, bsize, disk, mvars, rvars, xvars>>

(***************************************************************************)
(* The devices mount is run on                                             *)
(***************************************************************************)
BadSignature == [ESFS_SIGNATURE_STRING EXCEPT ![1] = 88]

BlockSizes ==
  { U64Zero, U64(512), U64(513), U64(1536), U64(4096),
    <<0, 0, 0, 1, 0, 0, 0, 0>>,      \* 2^24
    <<0, 2, 0, 1, 0, 0, 0, 0>>,      \* 2^24 + 512
    <<0, 0, 0, 2, 0, 0, 0, 0>>,      \* 2^25
    U64(BlockSizeBits),              \* 2^28 - 512
    <<0, 0, 0, 16, 0, 0, 0, 0>>,     \* 2^28
    <<0, 2, 0, 0, 1, 0, 0, 0>>,      \* 2^32 + 512
    <<0, 2, 0, 0, 0, 0, 0, 128>> }   \* 2^63 + 512

Superblocks ==
  [signature : {ESFS_SIGNATURE_STRING, BadSignature},
   requiredReadVersion : {ESFS_DRIVER_VERSION, ESFS_DRIVER_VERSION + 1},
   blockSize : BlockSizes,
   blockCount : {U64Zero, U64(64)},
   root : {[block |-> U64(2), offset_into_block |-> 0],
           [block |-> U64Zero, offset_into_block |-> SectorSize],
           [block |-> U64Max, offset_into_block |-> 0]}]

RootEntry(signature, attributeOffset) ==
  MakeDirentry(signature, attributeOffset, ESFS_NODE_TYPE_DIRECTORY, U64Zero,
               DataAttribute(AttrDataSize, ESFS_INDIRECTION_DIRECT, AttrDataSize, 0, <<>>))

RootEntries ==
  { RootEntry(ESFS_DIRECTORY_ENTRY_SIGNATURE, ESFS_ATTRIBUTE_OFFSET),
    RootEntry([ESFS_DIRECTORY_ENTRY_SIGNATURE EXCEPT ![8] = 0], ESFS_ATTRIBUTE_OFFSET),
    RootEntry(ESFS_DIRECTORY_ENTRY_SIGNATURE, 0),
    RootEntry(ESFS_DIRECTORY_ENTRY_SIGNATURE, 100) }

(***************************************************************************)
(* Directories: nodes whose data stream is made of slots of the device     *)
(***************************************************************************)
\* one record per slot, or with `halves` two records of one 512-byte block;
\* `starts` are the blocks, bs bytes each, at which the records start
DirExtents(slots, bs, halves) ==
  LET starts ==
        IF bs = DirentrySize THEN [j \in 1..Len(slots) |-> LibraryBlock + slots[j] - 1]
        ELSE IF ~halves THEN [j \in 1..Len(slots) |-> 2 * (LibraryBlock + slots[j] - 1)]
        ELSE [j \in 1..(2 * Len(slots)) |->
                2 * (LibraryBlock + slots[(j + 1) \div 2] - 1) + ((j + 1) % 2)]
  IN  [j \in 1..Len(starts) |->
         [sb |-> 1, cb |-> 1,
          count |-> IF bs = DirentrySize \/ halves THEN 1 ELSE 2,
          delta |-> starts[j] - (IF j = 1 THEN 0 ELSE starts[j - 1])]]

DirNodeOf(slots, rs, ind, fileSize, bs, nodeType) ==
  [ao |-> ESFS_ATTRIBUTE_OFFSET,
   size |-> IF ind = ESFS_INDIRECTION_L1
            THEN SizeFit(AttrDataSize, Len(EncodeExtents(rs))) ELSE 40,
   ind |-> ind, dataOffset |-> AttrDataSize,
   count |-> IF ind = ESFS_INDIRECTION_L1 THEN Len(rs) ELSE 8,
   extents |-> rs, fileSize |-> fileSize, bsize |-> bs, hasData |-> TRUE,
   slots |-> slots, nodeType |-> nodeType]

L1Dir(slots, bs, halves, fileSize, nodeType) ==
  DirNodeOf(slots, DirExtents(slots, bs, halves), ESFS_INDIRECTION_L1, fileSize, bs,
            nodeType)

\* every kind of slot alone, and the first three kinds in any order
SmallSeqs == UNION { [1..n -> 1..3] : n \in 1..MaxSlots }
SlotSeqs == { <<k>> : k \in 1..Len(SlotLibrary) } \cup SmallSeqs

TwoTo31 == <<0, 0, 0, 128, 0, 0, 0, 0>>

DirNodes ==
  \* directories of whole slots, one record to the slot
  { L1Dir(sl, DirentrySize, FALSE, U64(DirentrySize * Len(sl)), ESFS_NODE_TYPE_DIRECTORY) :
      sl \in SlotSeqs }
  \* blocks of 512 bytes, a slot in one record or in two
  \cup { L1Dir(sl, SectorSize, halves, U64(DirentrySize * Len(sl)),
               ESFS_NODE_TYPE_DIRECTORY) : sl \in SmallSeqs, halves \in BOOLEAN }
  \* a fileSize that ends within the last slot, and one past the last record
  \cup { L1Dir(sl, DirentrySize, FALSE, U64(DirentrySize * Len(sl) + more),
               ESFS_NODE_TYPE_DIRECTORY) :
           sl \in SmallSeqs, more \in {0 - SectorSize, DirentrySize} }
  \cup { \* a file, and directories of 2^31 bytes and more
         L1Dir(<<1>>, DirentrySize, FALSE, U64(DirentrySize), ESFS_NODE_TYPE_FILE),
         L1Dir(<<1>>, DirentrySize, FALSE, TwoTo31, ESFS_NODE_TYPE_DIRECTORY),
         L1Dir(<<1>>, DirentrySize, FALSE, <<0, 4, 0, 0, 1, 0, 0, 0>>,
               ESFS_NODE_TYPE_DIRECTORY),
         \* a record that leads off the device
         DirNodeOf(<<1>>, <<[sb |-> 1, cb |-> 1, count |-> 1, delta |-> 100]>>,
                   ESFS_INDIRECTION_L1, U64(DirentrySize), DirentrySize,
                   ESFS_NODE_TYPE_DIRECTORY),
         \* embedded data, too short for a slot
         DirNodeOf(<<>>, <<>>, ESFS_INDIRECTION_DIRECT, U64(2 * DirentrySize), SectorSize,
                   ESFS_NODE_TYPE_DIRECTORY) }

DirDirentryOf(nd) ==
  MakeDirentry(ESFS_DIRECTORY_ENTRY_SIGNATURE, nd.ao, nd.nodeType, nd.fileSize,
    DataAttribute(nd.size, nd.ind, nd.dataOffset, nd.count,
                  IF nd.ind = ESFS_INDIRECTION_L1 THEN EncodeExtents(nd.extents)
                  ELSE DirectPayload(8))
      \o FilenameAttribute)

(***************************************************************************)
(* grub_esfs_iterate_dir                                                   *)
(***************************************************************************)
ZeroEntry == [i \in 0..(DirentrySize - 1) |-> 0]

NoIter ==
  [fpos |-> U64Zero, dirSize |-> U64Zero, iter |-> 0, reads |-> 0,
   fresh |-> ZeroEntry, last |-> ZeroEntry, pending |-> <<>>,
   nodes |-> 0, names |-> 0, handed |-> 0, failed |-> FALSE,
   visits |-> <<>>, ret |-> "running"]

OutOfMemory == grub_error("GRUB_ERR_OUT_OF_MEMORY", "out of memory")

\* line 351
NotADirectory == grub_error("GRUB_ERR_BAD_FILE_TYPE", "not a directory")

\* line 356
DirectoryTooLarge == grub_error("GRUB_ERR_BAD_FS", "directory too large")

\* the size test letting a directory of exactly 2^31 bytes through
DirTooLarge_Above(dirSize) == UGt(dirSize, TwoTo31)

\* line 355
DirTooLarge(dirSize) == ULe(TwoTo31, dirSize)

\* the loop entered once more when fpos has reached dirSize
MoreSlots_AtEnd(fpos, dirSize) == ULe(fpos, dirSize)

\* line 359
MoreSlots(fpos, dirSize) == ULt(fpos, dirSize)

\* fdiro->direntry after the read: what grub_esfs_read_file wrote, over
\* what the allocation held
SlotBuffer(b, fresh) ==
  [i \in 0..(DirentrySize - 1) |->
     IF i < Len(b) /\ b[i + 1] # Stale THEN b[i + 1] ELSE fresh[i]]

\* lines 388-390
FilenameMalformed(e, f) ==
  f = NoAttribute \/ LE16(e, f + 2) < 8 \/ LE16(e, f + 4) > LE16(e, f + 2) - 8

\* line 408: grub_strndup of `length` bytes of the name
NameOf(e, f) ==
  LET bytes == [i \in 1..LE16(e, f + 4) |-> e[f + 7 + i]]
      nul   == {i \in 1..Len(bytes) : bytes[i] = 0}
  IN  IF nul = {} THEN bytes
      ELSE SubSeq(bytes, 1, (CHOOSE i \in nul : \A j \in nul : i <= j) - 1)

\* lines 396-406
TypeOf(nodeType) ==
  IF nodeType = ESFS_NODE_TYPE_DIRECTORY THEN "GRUB_FSHELP_DIR"
  ELSE IF nodeType = ESFS_NODE_TYPE_FILE THEN "GRUB_FSHELP_REG"
  ELSE "GRUB_FSHELP_UNKNOWN"

\* lines 347-356
grub_esfs_iterate_dir_enter ==
  /\ pc = "it_call"
  /\ UNCHANGED <<node, direntry, beyond, bsize, disk, rvars, mvars, found, facade>>
  /\ IF DirentryNodeType(direntry) # ESFS_NODE_TYPE_DIRECTORY
     THEN /\ grub_errno' = NotADirectory
          /\ it' = [it EXCEPT !.ret = NotADirectory.code]
          /\ pc' = "it_ret"
     ELSE IF DirTooLarge(DirentryFileSize(direntry))
     THEN /\ grub_errno' = DirectoryTooLarge
          /\ it' = [it EXCEPT !.ret = DirectoryTooLarge.code]
          /\ pc' = "it_ret"
     ELSE /\ it' = [it EXCEPT !.dirSize = DirentryFileSize(direntry), !.fpos = U64Zero]
          /\ pc' = "it_loop"
          /\ UNCHANGED grub_errno

\* lines 359-370: the loop test, the node allocated, grub_esfs_read_file called
grub_esfs_iterate_dir_slot ==
  /\ pc = "it_loop"
  /\ UNCHANGED <<node, direntry, beyond, bsize, disk, split, mvars, found, facade>>
  /\ IF ~MoreSlots(it.fpos, it.dirSize)
     THEN /\ it' = [it EXCEPT !.ret = "0"]
          /\ pc' = "it_ret"
          /\ UNCHANGED <<grub_errno, args, buf, rf, ret, nreads, fetched, copied>>
     ELSE \/ /\ grub_errno' = OutOfMemory
             /\ it' = [it EXCEPT !.iter = @ + 1, !.failed = TRUE, !.ret = "0"]
             /\ pc' = "it_ret"
             /\ UNCHANGED <<args, buf, rf, ret, nreads, fetched, copied>>
          \/ /\ \E fresh \in {ZeroEntry, it.last} :
                  it' = [it EXCEPT !.iter = @ + 1, !.nodes = @ + 1, !.reads = @ + 1,
                                   !.fresh = fresh]
             /\ args' = [read_hook |-> NULL, read_hook_data |-> NULL,
                         pos |-> it.fpos, len |-> U64(DirentrySize)]
             /\ buf' = <<>>
             /\ rf' = NoLocals
             /\ ret' = U64Zero
             /\ nreads' = 0
             /\ fetched' = {}
             /\ copied' = [from |-> 0, n |-> 0]
             /\ pc' = "call"
             /\ UNCHANGED grub_errno

\* lines 371-412: from the return of grub_esfs_read_file to the call of hook
grub_esfs_iterate_dir_entry ==
  /\ pc = "ret"
  /\ it.ret = "running"
  /\ UNCHANGED <<node, direntry, beyond, bsize, disk, rvars, mvars, found, facade>>
  /\ LET e == SlotBuffer(buf, it.fresh)
         f == get_direntry_attribute(e, ESFS_ATTRIBUTE_FILENAME, 8)
         on == [it EXCEPT !.fpos = UAdd(@, U64(DirentrySize)), !.last = e,
                          !.nodes = @ - 1]
     IN  IF grub_errno # NoError
         THEN /\ it' = [it EXCEPT !.nodes = @ - 1, !.ret = "0"]
              /\ pc' = "it_ret"
              /\ UNCHANGED grub_errno
         ELSE IF \/ ~esfs_check_direntry(e)
                 \/ FilenameMalformed(e, f)
                 \/ TypeOf(DirentryNodeType(e)) = "GRUB_FSHELP_UNKNOWN"
         THEN /\ it' = on
              /\ pc' = "it_loop"
              /\ UNCHANGED grub_errno
         ELSE \/ /\ grub_errno' = OutOfMemory
                 /\ it' = [on EXCEPT !.failed = TRUE]
                 /\ pc' = "it_loop"
              \/ /\ it' = [on EXCEPT !.nodes = @ + 1, !.names = @ + 1,
                                      !.pending = <<[slot |-> ToNat(it.fpos) \div DirentrySize,
                                                     type |-> TypeOf(DirentryNodeType(e)),
                                                     filename |-> NameOf(e, f),
                                                     node |-> e, got |-> ret]>>]
                 /\ pc' = "it_hook"
                 /\ UNCHANGED grub_errno

\* lines 414-417: hook has the name and the node, and says whether to stop
grub_esfs_iterate_dir_hook ==
  /\ pc = "it_hook"
  /\ UNCHANGED <<node, direntry, beyond, bsize, disk, grub_errno, rvars, mvars, found,
                 facade>>
  /\ \E stop \in BOOLEAN :
       LET seen == [it EXCEPT !.visits = Append(@, it.pending[1]), !.pending = <<>>,
                              !.nodes = @ - 1, !.handed = @ + 1]
       IN  IF stop
           THEN /\ it' = [seen EXCEPT !.ret = "1"]
                /\ pc' = "it_ret"
           ELSE /\ it' = [seen EXCEPT !.names = @ - 1]
                /\ pc' = "it_loop"

\* a caller walks the directory
CallIterateDir ==
  /\ pc = "idle"
  /\ pc' = "it_call"
  /\ UNCHANGED <<node, direntry, beyond, bsize, disk, grub_errno, rvars, mvars, xvars>>

(***************************************************************************)
(* The entry points: grub_esfs_open, grub_esfs_read, grub_esfs_close,      *)
(* grub_esfs_dir, grub_esfs_label and grub_esfs_uuid                       *)
(***************************************************************************)
\* refs: the reference count of my_mod; open: the entries of the files
\* open; op: the entry point running; before: the counts when it was called;
\* last: how the entry point that ran last ended
NoFacade ==
  [refs |-> 0, open |-> <<>>, op |-> "none",
   before |-> [refs |-> 0, heap |-> 0, handles |-> 0],
   last |-> [op |-> "none", ok |-> TRUE]]

\* grub_fshelp_find_file did not find the path
NotFound == grub_error("GRUB_ERR_FILE_NOT_FOUND", "file not found")

\* the fail label of grub_esfs_open keeping its reference to the module
OpenFailUnref_Kept(refs) == refs

\* line 459
OpenFailUnref(refs) == refs - 1

Returned(op, ok, refs, open) ==
  [facade EXCEPT !.refs = refs, !.open = open, !.op = "none",
                 !.last = [op |-> op, ok |-> ok]]

\* lines 431-433, 520-522, 553-555, 575-577: grub_dl_ref, then grub_esfs_mount
CallFacade ==
  /\ pc = "idle"
  /\ \E op \in {"open", "dir", "label", "uuid"} :
       /\ op = "open" => Len(facade.open) < MaxOpen
       /\ facade' = [facade EXCEPT !.refs = @ + 1, !.op = op,
                                   !.before = [refs |-> facade.refs, heap |-> heap,
                                               handles |-> Len(facade.open)]]
  /\ pc' = "mount"
  /\ grub_errno' = NoError
  /\ mret' = NULL
  /\ mreads' = <<>>
  /\ UNCHANGED <<direntry, bsize, disk, image, sblock, heap, rvars, found, it>>

\* lines 433-461, after grub_esfs_mount: grub_fshelp_find_file finds the
\* file, one with embedded data or one with an extent, or does not
grub_esfs_open ==
  /\ pc = "m_ret"
  /\ facade.op = "open"
  /\ pc' = "idle"
  /\ UNCHANGED <<bsize, disk, image, sblock, mret, mreads, rvars, found, it>>
  /\ IF mret = NULL
     THEN /\ facade' = Returned("open", FALSE, OpenFailUnref(facade.refs), facade.open)
          /\ UNCHANGED <<direntry, grub_errno, heap>>
     ELSE \/ /\ \E e \in {SlotLibrary[1],
                            DirDirentryOf(L1Dir(<<1>>, SectorSize, FALSE, U64(DirentrySize),
                                                ESFS_NODE_TYPE_FILE))} :
                  /\ direntry' = e
                  /\ facade' = Returned("open", TRUE, facade.refs, Append(facade.open, e))
             /\ UNCHANGED <<grub_errno, heap>>
          \/ /\ grub_errno' = NotFound
             /\ heap' = heap - 1
             /\ facade' = Returned("open", FALSE, OpenFailUnref(facade.refs), facade.open)
             /\ UNCHANGED direntry

\* lines 464-472
grub_esfs_close ==
  /\ pc = "idle"
  /\ \E h \in 1..Len(facade.open) :
       facade' = Returned("close", TRUE, facade.refs - 1,
                          SubSeq(facade.open, 1, h - 1)
                            \o SubSeq(facade.open, h + 1, Len(facade.open)))
  /\ heap' = heap - 1
  /\ UNCHANGED <<direntry, bsize, disk, grub_errno, pc, image, sblock, mret, mreads, rvars,
                 found, it>>

\* lines 475-483: grub_esfs_read_file on the entry of an open file
grub_esfs_read_handle ==
  /\ pc = "idle"
  /\ \E h \in 1..Len(facade.open) : direntry' = facade.open[h]
  /\ facade' = [facade EXCEPT !.op = "read"]
  /\ \E pos \in {U64Zero, U64(3)} :
       StartCall([read_hook |-> NULL, read_hook_data |-> NULL, pos |-> pos,
                  len |-> U64(9)])
  /\ UNCHANGED <<node, beyond, bsize, disk, split, mvars, found, it>>

\* line 480: what grub_esfs_read_file returned is returned
grub_esfs_read_return ==
  /\ pc = "ret"
  /\ facade.op = "read"
  /\ pc' = "idle"
  /\ facade' = Returned("read", ret # MinusOne, facade.refs, facade.open)
  /\ UNCHANGED <<direntry, bsize, disk, grub_errno, rvars, mvars, found, it>>

\* lines 522-544, after grub_esfs_mount: the path is found or not, the
\* directory is walked, the volume is freed
grub_esfs_dir ==
  /\ pc = "m_ret"
  /\ facade.op = "dir"
  /\ pc' = "idle"
  /\ UNCHANGED <<direntry, bsize, disk, image, sblock, mret, mreads, rvars, found, it>>
  /\ IF mret = NULL
     THEN /\ facade' = Returned("dir", FALSE, facade.refs - 1, facade.open)
          /\ UNCHANGED <<grub_errno, heap>>
     ELSE /\ heap' = heap - 1
          /\ \E e \in {NoError, NotFound} :
               /\ grub_errno' = e
               /\ facade' = Returned("dir", e = NoError, facade.refs - 1, facade.open)

\* lines 555-566, after grub_esfs_mount: the label is copied if there is
\* memory for it, the volume is freed
grub_esfs_label ==
  /\ pc = "m_ret"
  /\ facade.op = "label"
  /\ pc' = "idle"
  /\ UNCHANGED <<direntry, bsize, disk, image, sblock, mret, mreads, rvars, found, it>>
  /\ IF mret = NULL
     THEN /\ facade' = Returned("label", FALSE, facade.refs - 1, facade.open)
          /\ UNCHANGED <<grub_errno, heap>>
     ELSE /\ heap' = heap - 1
          /\ \E e \in {NoError, OutOfMemory} :
               /\ grub_errno' = e
               /\ facade' = Returned("label", e = NoError, facade.refs - 1, facade.open)

\* lines 577-596, after grub_esfs_mount: the identifier is printed if there
\* is memory for it, the volume is freed
grub_esfs_uuid ==
  /\ pc = "m_ret"
  /\ facade.op = "uuid"
  /\ pc' = "idle"
  /\ UNCHANGED <<direntry, bsize, disk, image, sblock, mret, mreads, rvars, found, it>>
  /\ IF mret = NULL
     THEN /\ facade' = Returned("uuid", FALSE, facade.refs - 1, facade.open)
          /\ UNCHANGED <<grub_errno, heap>>
     ELSE /\ heap' = heap - 1
          /\ \E e \in {NoError, OutOfMemory} :
               /\ grub_errno' = e
               /\ facade' = Returned("uuid", e = NoError, facade.refs - 1, facade.open)

(***************************************************************************)
(* get_direntry_attribute on any entry, for any type and minimal size      *)
(***************************************************************************)
NoFound == [attrid |-> 0, minsize |-> 0, result |-> NoAttribute]

\* an attribute of n bytes that carries only its header
PlainAttribute(type, size, n) ==
  [i \in 1..n |-> IF i <= AttrHeaderSize THEN (LE16Bytes(type) \o LE16Bytes(size))[i] ELSE 0]

\* k attributes of type 9, 8 bytes each, one after the other
AttributeChain(k) ==
  [i \in 1..(8 * k) |-> IF (i - 1) % 8 = 0 THEN 9 ELSE IF (i - 1) % 8 = 2 THEN 8 ELSE 0]

EmptyData(size) == DataAttribute(size, ESFS_INDIRECTION_DIRECT, AttrDataSize, 0, <<>>)

EntryWith(attributeOffset, attributes) ==
  MakeDirentry(ESFS_DIRECTORY_ENTRY_SIGNATURE, attributeOffset, ESFS_NODE_TYPE_FILE,
               U64(5), attributes)

\* MaxChain attributes up to the end of the entry, the last 4 bytes long
LongestWalkEntry ==
  EntryWith(DirentrySize - 8 * MaxChain,
            AttributeChain(MaxChain - 1) \o PlainAttribute(9, 4, 4))

AttrEntries ==
  { EntryWith(ESFS_ATTRIBUTE_OFFSET, FilenameAttribute \o EmptyData(40)),
    EntryWith(ESFS_ATTRIBUTE_OFFSET, EmptyData(40) \o FilenameAttribute),
    \* an attribute of 4 bytes, one of 12, one of 0 and one of 2 lead the list
    EntryWith(ESFS_ATTRIBUTE_OFFSET, PlainAttribute(9, 4, 4) \o EmptyData(40)),
    EntryWith(ESFS_ATTRIBUTE_OFFSET, PlainAttribute(9, 12, 12) \o EmptyData(40)),
    EntryWith(ESFS_ATTRIBUTE_OFFSET, PlainAttribute(9, 0, 8) \o EmptyData(40)),
    EntryWith(ESFS_ATTRIBUTE_OFFSET, PlainAttribute(2, 2, 8) \o EmptyData(40)),
    \* a DATA attribute of 33 bytes
    EntryWith(ESFS_ATTRIBUTE_OFFSET, EmptyData(33) \o FilenameAttribute),
    \* two DATA attributes, the first too small for a demanding caller
    EntryWith(ESFS_ATTRIBUTE_OFFSET, EmptyData(32) \o EmptyData(48)),
    \* an attribute that runs past the entry, and one that just fits
    EntryWith(1016, PlainAttribute(1, 16, 8)),
    EntryWith(1016, PlainAttribute(2, 8, 8)),
    \* lists that start at odd places
    EntryWith(100, EmptyData(40)),
    EntryWith(0, <<>>),
    EntryWith(1020, PlainAttribute(1, 4, 4)),
    EntryWith(DirentrySize, <<>>),
    \* lists that fill the entry
    EntryWith(DirentrySize - 8 * MaxChain, AttributeChain(MaxChain)),
    LongestWalkEntry }

AttrIds == {ESFS_ATTRIBUTE_DATA, ESFS_ATTRIBUTE_FILENAME, 9}
MinSizes == {0, AttrHeaderSize, 8, AttrDataSize, 40}

\* lines 157-178 under any caller
CallGetAttribute ==
  /\ pc \in {"idle", "got"}
  /\ \E attrid \in AttrIds, minsize \in MinSizes :
       found' = [attrid |-> attrid, minsize |-> minsize,
                 result |-> get_direntry_attribute(direntry, attrid, minsize)]
  /\ pc' = "got"
  /\ UNCHANGED <<node, direntry, beyond, bsize, disk, grub_errno, args, buf, rf, ret,
                 nreads, fetched, copied, split, mvars, it, facade>>

NoExtras == found = NoFound /\ it = NoIter /\ facade = NoFacade

(***************************************************************************)
(* Specifications                                                          *)
(***************************************************************************)
NoMount ==
  /\ image = [sblock |-> Uninit, root |-> Uninit]
  /\ sblock = Uninit
  /\ mret = NULL
  /\ heap = 0
  /\ mreads = <<>>

InitNode ==
  /\ node \in ReadNodes
  /\ direntry = DirentryOf(node)
  /\ beyond \in HeapBytes
  /\ bsize = U64(node.bsize)
  /\ disk = [read_hook |-> NULL, read_hook_data |-> NULL, total_sectors |-> DiskSectors]
  /\ grub_errno = NoError
  /\ pc = "idle"
  /\ args = NoArgs
  /\ buf = <<>>
  /\ rf = NoLocals
  /\ ret = U64Zero
  /\ nreads = 0
  /\ fetched = {}
  /\ copied = [from |-> 0, n |-> 0]
  /\ NoMount
  /\ NoExtras

\* grub_esfs_read_file under any caller
Init ==
  /\ InitNode
  /\ split = [k |-> U64Zero, stage |-> 0, saved |-> <<>>]

Next ==
  \/ CallReadFile
  \/ grub_esfs_read_file_enter
  \/ grub_esfs_read_file_extent
  \/ grub_esfs_read_file_disk

Spec == Init /\ [][Next]_vars

\* grub_esfs_read_file under the two-part reader
InitSplit ==
  /\ InitNode
  /\ \E k \in SplitPoints(node) : split = [k |-> k, stage |-> 0, saved |-> <<>>]

NextSplit ==
  \/ grub_esfs_read
  \/ SplitDone
  \/ grub_esfs_read_file_enter
  \/ grub_esfs_read_file_extent
  \/ grub_esfs_read_file_disk

SpecSplit == InitSplit /\ [][NextSplit]_vars

\* grub_esfs_mount on any device
InitMount ==
  /\ image \in [sblock : Superblocks, root : RootEntries]
  /\ disk \in [read_hook : {NULL}, read_hook_data : {NULL},
               total_sectors : {DiskSectors \div 2, DiskSectors}]
  /\ sblock = Uninit
  /\ direntry = Uninit
  /\ bsize = U64Zero
  /\ mret = NULL
  /\ heap = 0
  /\ mreads = <<>>
  /\ grub_errno = NoError
  /\ pc = "idle"
  /\ node = Uninit
  /\ beyond = 0
  /\ args = NoArgs
  /\ buf = <<>>
  /\ rf = NoLocals
  /\ ret = U64Zero
  /\ nreads = 0
  /\ fetched = {}
  /\ copied = [from |-> 0, n |-> 0]
  /\ split = [k |-> U64Zero, stage |-> 0, saved |-> <<>>]
  /\ NoExtras

NextMount ==
  \/ CallMount
  \/ grub_esfs_mount_alloc
  \/ grub_esfs_mount_super
  \/ grub_esfs_mount_root

SpecMount == InitMount /\ [][NextMount]_vars

\* the state around an entry that nothing has been done with
Quiet ==
  /\ node = Uninit
  /\ beyond = 0
  /\ bsize = U64(SectorSize)
  /\ disk = [read_hook |-> NULL, read_hook_data |-> NULL, total_sectors |-> DiskSectors]
  /\ grub_errno = NoError
  /\ pc = "idle"
  /\ args = NoArgs
  /\ buf = <<>>
  /\ rf = NoLocals
  /\ ret = U64Zero
  /\ nreads = 0
  /\ fetched = {}
  /\ copied = [from |-> 0, n |-> 0]
  /\ split = [k |-> U64Zero, stage |-> 0, saved |-> <<>>]
  /\ NoMount

\* get_direntry_attribute on any entry
InitAttr ==
  /\ direntry \in AttrEntries
  /\ Quiet
  /\ NoExtras

NextAttr == CallGetAttribute

SpecAttr == InitAttr /\ [][NextAttr]_vars

\* grub_esfs_iterate_dir on any directory
InitDir ==
  /\ node \in DirNodes
  /\ direntry = DirDirentryOf(node)
  /\ beyond = 0
  /\ bsize = U64(node.bsize)
  /\ disk = [read_hook |-> NULL, read_hook_data |-> NULL, total_sectors |-> DiskSectors]
  /\ grub_errno = NoError
  /\ pc = "idle"
  /\ args = NoArgs
  /\ buf = <<>>
  /\ rf = NoLocals
  /\ ret = U64Zero
  /\ nreads = 0
  /\ fetched = {}
  /\ copied = [from |-> 0, n |-> 0]
  /\ split = [k |-> U64Zero, stage |-> 0, saved |-> <<>>]
  /\ NoMount
  /\ NoExtras

NextDir ==
  \/ CallIterateDir
  \/ grub_esfs_iterate_dir_enter
  \/ grub_esfs_iterate_dir_slot
  \/ grub_esfs_iterate_dir_entry
  \/ grub_esfs_iterate_dir_hook
  \/ grub_esfs_read_file_enter
  \/ grub_esfs_read_file_extent
  \/ grub_esfs_read_file_disk

SpecDir == InitDir /\ [][NextDir]_vars

\* the entry points called one after the other on any device
InitFacade ==
  /\ image \in [sblock : {sb \in Superblocks :
                             /\ sb.blockSize = U64(SectorSize)
                             /\ sb.blockCount # U64Zero
                             /\ sb.requiredReadVersion = ESFS_DRIVER_VERSION
                             /\ sb.root.block = U64(2)},
                 root : RootEntries]
  /\ direntry = Uninit
  /\ bsize = U64Zero
  /\ disk = [read_hook |-> NULL, read_hook_data |-> NULL, total_sectors |-> DiskSectors]
  /\ sblock = Uninit
  /\ mret = NULL
  /\ heap = 0
  /\ mreads = <<>>
  /\ grub_errno = NoError
  /\ pc = "idle"
  /\ node = Uninit
  /\ beyond = 0
  /\ args = NoArgs
  /\ buf = <<>>
  /\ rf = NoLocals
  /\ ret = U64Zero
  /\ nreads = 0
  /\ fetched = {}
  /\ copied = [from |-> 0, n |-> 0]
  /\ split = [k |-> U64Zero, stage |-> 0, saved |-> <<>>]
  /\ NoExtras

NextFacade ==
  \/ CallFacade
  \/ grub_esfs_mount_alloc
  \/ grub_esfs_mount_super
  \/ grub_esfs_mount_root
  \/ grub_esfs_open
  \/ grub_esfs_close
  \/ grub_esfs_read_handle
  \/ grub_esfs_read_file_enter
  \/ grub_esfs_read_file_extent
  \/ grub_esfs_read_file_disk
  \/ grub_esfs_read_return
  \/ grub_esfs_dir
  \/ grub_esfs_label
  \/ grub_esfs_uuid

SpecFacade == InitFacade /\ [][NextFacade]_vars

(***************************************************************************)
(* Properties                                                              *)
(***************************************************************************)
\* the DATA attribute grub_esfs_read_file works on, and its fields
DataAttr == get_direntry_attribute(direntry, ESFS_ATTRIBUTE_DATA, AttrDataSize)
DataSize == LE16(direntry, DataAttr + 2)
DataIndirection == direntry[DataAttr + 4]
DataOffset == direntry[DataAttr + 5]
DataCount == LE16(direntry, DataAttr + 6)
FileSize == DirentryFileSize(direntry)

\* the physical byte address behind logical byte i of an extent list, bs
\* bytes to the block, the previous record having started at block `cur`
RECURSIVE Backing(_, _, _, _)
Backing(rs, bs, cur, i) ==
  LET r == Head(rs)
  IN  IF i < r.count * bs THEN (cur + r.delta) * bs + i
      ELSE Backing(Tail(rs), bs, cur + r.delta, i - r.count * bs)

\* an L1 node whose records are all there and cover the file
CoveringL1 ==
  /\ node.hasData /\ node.ind = ESFS_INDIRECTION_L1
  /\ node.extents # <<>>
  /\ node.count = Len(node.extents)
  /\ node.size >= SizeFit(node.dataOffset, Len(EncodeExtents(node.extents)))
  /\ ToNat(node.fileSize) <= BlocksOf(node.extents) * node.bsize

\* C1: one read of [0, fileSize) of an L1 file whose extents cover it
\* returns fileSize and leaves in out_buf[i] the disk byte behind logical
\* byte i, also when the range spans several extents
C1_FullReadMatchesDisk ==
  (/\ pc = "ret" /\ CoveringL1
   /\ args.pos = U64Zero /\ args.len = FileSize
   /\ grub_errno = NoError)
  => /\ ret = FileSize
     /\ \A i \in 0..(ToNat(FileSize) - 1) :
          /\ i < Len(buf)
          /\ buf[i + 1] = DiskByte(Backing(node.extents, node.bsize, 0, i))

\* the same for files of a single extent, which the code does satisfy
C1_SingleExtentMatchesDisk ==
  (Len(node.extents) = 1) => C1_FullReadMatchesDisk

\* a full read that went through two extents
C1_TwoExtentsRead ==
  /\ pc = "ret" /\ CoveringL1 /\ args.pos = U64Zero /\ args.len = FileSize
  /\ grub_errno = NoError /\ nreads >= 2

\* C2: whatever pos and len are, a returned byte count n is at most
\* min(len, fileSize - pos), and no byte at or past fileSize is delivered
C2_CountWithinFile ==
  (pc = "ret" /\ ret # MinusOne)
  => /\ ULe(args.pos, FileSize)
     /\ ULe(ret, args.len)
     /\ ULe(ret, USub(FileSize, args.pos))
     /\ ULe(U64(Len(buf)), USub(FileSize, args.pos))

\* the same for calls whose pos + len does not wrap at 2^64
C2_CountWithinFileNoWrap ==
  ULe(args.pos, UAdd(args.len, args.pos)) => C2_CountWithinFile

\* C3: the bytes of read(0, k) followed by those of read(k, fileSize - k)
\* are the bytes of read(0, fileSize)
C3_SplitEqualsWhole ==
  (/\ pc = "done"
   /\ \A j \in 1..3 : split.saved[j].errno = "GRUB_ERR_NONE")
  => split.saved[2].bytes \o split.saved[3].bytes = split.saved[1].bytes

\* the same for DIRECT data
C3_SplitEqualsWholeDirect ==
  (node.ind = ESFS_INDIRECTION_DIRECT) => C3_SplitEqualsWhole

\* C4: every byte the DIRECT copy reads lies in the attribute at
\* [dataOffset, dataOffset + min(count, size - dataOffset)), hence in the
\* attribute and in the 1024-byte entry
C4_DirectCopyInBounds ==
  (pc = "ret" /\ copied.n > 0)
  => /\ copied.from >= DataOffset
     /\ copied.from + copied.n <=
          DataOffset + (IF DataCount < DataSize - DataOffset THEN DataCount
                        ELSE DataSize - DataOffset)
     /\ DataAttr + copied.from + copied.n <= DirentrySize

\* C5: every byte the extent decoder fetches lies in the attribute at
\* [dataOffset, size), and a record that does not fit ends the walk with
\* the bytes read so far and no error
C5_DecoderInBounds ==
  /\ \A o \in fetched : DataOffset <= o /\ o < DataSize
  /\ (pc = "ret" /\ rf.ext_off \in fetched)
       => (ret = rf.already_read /\ grub_errno = NoError)

\* the same without the record's header byte, which is fetched unchecked
C5_PayloadInBounds ==
  /\ \A o \in fetched \ {rf.ext_off} : DataOffset <= o /\ o < DataSize
  /\ (pc = "ret" /\ rf.ext_off \in fetched)
       => (ret = rf.already_read /\ grub_errno = NoError)

\* C9: the device's hook slot holds the caller's hook during every
\* block-device read of the extent walk and is empty at every return of
\* grub_esfs_read_file, a return after a failed read included
C9_HookHeldThenCleared ==
  /\ (pc = "disk" => disk.read_hook = args.read_hook)
  /\ (pc = "ret" => disk.read_hook = NULL)

\* a node whose DATA attribute is DIRECT
DirectData == DataAttr # NoAttribute /\ DataIndirection = ESFS_INDIRECTION_DIRECT

\* C10: on a DIRECT attribute grub_esfs_read_file returns having issued no
\* block-device read and having left the device's hook and hook data as
\* they were, whatever pos, len and hook it was called with
C10_DirectLeavesDevice ==
  [][(pc = "call" /\ DirectData) => (pc' = "ret" /\ nreads' = 0 /\ disk' = disk)]_vars

\* a DIRECT read that copied bytes for a caller that passed a hook
C10_DirectReadWithHook ==
  /\ pc = "ret" /\ DirectData
  /\ args.read_hook = "hook"
  /\ copied.n > 0 /\ ret = U64(copied.n)

\* what grub_esfs_mount's reads came to
SuperblockRead == Len(mreads) >= 1 /\ mreads[1].result = "ok"
RootRead == Len(mreads) = 2 /\ mreads[2].result = "ok"
NotEsfs == grub_error("GRUB_ERR_BAD_FS", "not an esfs filesystem")

\* the entries the directory-entry parser is specified to accept
ValidDirentry(e) ==
  /\ DirentrySignature(e) = ESFS_DIRECTORY_ENTRY_SIGNATURE
  /\ DirentryAttributeOffset(e) % 8 = 0
  /\ DirentryAttributeOffset(e) >= ESFS_ATTRIBUTE_OFFSET
  /\ DirentryAttributeOffset(e) <= DirentrySize - AttrHeaderSize

\* C6: the root entry of a mounted volume has the signature "DirEntry" and
\* an 8-aligned attributeOffset in [96, 1020]; a root entry that has not
\* makes mount fail with BadFS("incorrect directory signature")
C6_AcceptedRootIsValid ==
  (pc = "m_ret")
  => /\ (mret # NULL => ValidDirentry(direntry))
     /\ (RootRead /\ ~ValidDirentry(image.root))
          => (mret = NULL /\ grub_errno = grub_error("GRUB_ERR_BAD_FS",
                                                     "incorrect directory signature"))

\* the same for the signature alone, which is all the code tests
C6_AcceptedRootHasSignature ==
  (pc = "m_ret")
  => /\ (mret # NULL => esfs_check_direntry(direntry))
     /\ (RootRead /\ ~esfs_check_direntry(image.root))
          => (mret = NULL /\ grub_errno = grub_error("GRUB_ERR_BAD_FS",
                                                     "incorrect directory signature"))

\* C7: mount returns no volume and BadFS("not an esfs filesystem") for a
\* superblock with a wrong signature, a requiredReadVersion above 10 or a
\* blockCount of 0, without reading the root entry, and whenever a read
\* fails with OutOfRange; any other device error is left as it was raised
C7_MountRejects ==
  (pc = "m_ret")
  => /\ (/\ SuperblockRead
         /\ \/ image.sblock.signature # ESFS_SIGNATURE_STRING
            \/ image.sblock.requiredReadVersion > 10
            \/ image.sblock.blockCount = U64Zero)
          => (mret = NULL /\ grub_errno = NotEsfs /\ Len(mreads) = 1)
     /\ (\E i \in 1..Len(mreads) : mreads[i].result = "GRUB_ERR_OUT_OF_RANGE")
          => (mret = NULL /\ grub_errno = NotEsfs)
     /\ (\E i \in 1..Len(mreads) : mreads[i].result = "GRUB_ERR_READ_ERROR")
          => (mret = NULL /\ grub_errno = grub_error("GRUB_ERR_READ_ERROR",
                                                     "disk read failed"))

\* a superblock with a wrong signature has been turned down
C7_BadSignatureRejected ==
  /\ pc = "m_ret" /\ SuperblockRead
  /\ image.sblock.signature # ESFS_SIGNATURE_STRING
  /\ image.sblock.requiredReadVersion <= 10
  /\ ~BlockSizeRejected(image.sblock.blockSize)
  /\ image.sblock.blockCount # U64Zero
  /\ grub_errno = NotEsfs

\* a block size that is 0, no multiple of 512, or above `ceiling`
BlockSizeOutside(blockSize, ceiling) ==
  blockSize = U64Zero \/ ULow9(blockSize) # 0 \/ UGt(blockSize, ceiling)

MountBlockSizeWithin(ceiling) ==
  (pc = "m_ret")
  => /\ (SuperblockRead /\ BlockSizeOutside(image.sblock.blockSize, ceiling))
          => (mret = NULL /\ grub_errno = NotEsfs)
     /\ (mret # NULL => ~BlockSizeOutside(bsize, ceiling))

\* C8, as claimed: mount fails with BadFS for every blockSize that is 0, no
\* multiple of 512 or above 16 MiB (2^24), and accepts no other
C8_BlockSizeCeiling16MiB == MountBlockSizeWithin(<<0, 0, 0, 1, 0, 0, 0, 0>>)

\* C8, amended: mount fails with BadFS for every blockSize that is 0, no
\* multiple of 512 or above 0x0FFFFE00 (256 MiB - 512), and accepts no other
C8_BlockSizeCeiling == MountBlockSizeWithin(U64(BlockSizeBits))

\* a volume mounted with the largest block size there is
C8_LargestBlockSizeMounted ==
  pc = "m_ret" /\ mret # NULL /\ bsize = U64(BlockSizeBits)

\* a DATA attribute that grub_esfs_read_file takes: found, dataOffset <= size
ValidData == DataAttr # NoAttribute /\ DataOffset <= DataSize

\* C11, as claimed: for every pos >= fileSize, pos = fileSize included,
\* grub_esfs_read_file returns -1, copies no byte and reads no block
C11_AtOrPastEndIsEOF ==
  (pc = "ret" /\ ValidData /\ ULe(FileSize, args.pos))
  => (ret = MinusOne /\ buf = <<>> /\ nreads = 0)

\* C11, amended: for every pos > fileSize grub_esfs_read_file returns -1
\* without raising an error, copies no byte and reads no block; pos =
\* fileSize is not turned down: on an L1 attribute, pos + len not passing
\* 2^64, the call returns 0, again without copying or reading
C11_PastEndIsEOF ==
  /\ (pc = "ret" /\ ValidData /\ UGt(args.pos, FileSize))
     => (ret = MinusOne /\ grub_errno = NoError /\ buf = <<>> /\ nreads = 0)
  /\ (/\ pc = "ret" /\ ValidData /\ args.pos = FileSize
      /\ DataIndirection = ESFS_INDIRECTION_L1
      /\ ULe(args.len, USub(U64Max, args.pos)))
     => (ret = U64Zero /\ grub_errno = NoError /\ buf = <<>> /\ nreads = 0)

\* a call one byte past the end of an L1 file has returned
C11_ReadPastEndReturned ==
  /\ pc = "ret" /\ ValidData /\ DataIndirection = ESFS_INDIRECTION_L1
  /\ args.pos = UAdd(FileSize, U64(1))
  /\ ret = MinusOne

UnknownIndirection ==
  ValidData /\ DataIndirection \notin {ESFS_INDIRECTION_DIRECT, ESFS_INDIRECTION_L1}

\* C12, as claimed: on a DATA attribute whose indirection is neither 1 nor 2
\* grub_esfs_read_file fails with BadFS("unknown redirection") for every
\* pos and len, and reads no block
C12_UnknownIndirectionFails ==
  (pc = "ret" /\ UnknownIndirection)
  => /\ ret = MinusOne
     /\ grub_errno = grub_error("GRUB_ERR_BAD_FS", "unknown redirection")
     /\ nreads = 0

\* C12, amended: on such an attribute grub_esfs_read_file fails with
\* BadFS("unknown redirection") for every pos <= fileSize and every len; for
\* pos > fileSize it returns -1 and raises no error; it reads no block
C12_UnknownIndirectionFailsWithinFile ==
  (pc = "ret" /\ UnknownIndirection)
  => /\ ret = MinusOne /\ nreads = 0 /\ buf = <<>>
     /\ grub_errno = IF ULe(args.pos, FileSize)
                     THEN grub_error("GRUB_ERR_BAD_FS", "unknown redirection")
                     ELSE NoError

\* a read at the very end of a file of unknown indirection has failed
C12_UnknownIndirectionAtEnd ==
  /\ pc = "ret" /\ UnknownIndirection
  /\ args.pos = FileSize
  /\ grub_errno = grub_error("GRUB_ERR_BAD_FS", "unknown redirection")

\* the sum, modulo 2^64, of the deltas of the first k records
RECURSIVE SumDeltas(_, _)
SumDeltas(rs, k) ==
  IF k = 0 THEN U64Zero ELSE UAdd(SumDeltas(rs, k - 1), SignedU64(rs[k].delta))

\* C17: when the walk reads for its k-th record, curStart is the sum modulo
\* 2^64 of the k signed deltas, and the read goes to sector
\* curStart * (B / 512) + add_off div 512 at offset add_off mod 512, which
\* is physical byte curStart * B + add_off
C17_CursorIsSumOfDeltas ==
  (/\ pc = "disk" /\ node.hasData /\ node.ind = ESFS_INDIRECTION_L1
   /\ rf.extnum < Len(node.extents))
  => LET k       == rf.extnum + 1
         cur     == SumDeltas(node.extents, k)
         before  == U64(BlocksOf(SubSeq(node.extents, 1, k - 1)) * node.bsize)
         add_off == IF ULt(before, args.pos) THEN USub(args.pos, before) ELSE U64Zero
     IN  /\ rf.cur_start = cur
         /\ rf.cur_pos = before
         /\ rf.sector = UAdd(UMul(cur, U64(node.bsize \div SectorSize)), UShr9(add_off))
         /\ rf.offset = ULow9(add_off)
         /\ UAdd(UMul(rf.sector, U64(SectorSize)), U64(rf.offset))
              = UAdd(UMul(cur, bsize), add_off)

\* extents [+5,1], [+2,1], [+10,1]: the third is being read at block 17
C17_ThirdExtentAtBlock17 ==
  /\ pc = "disk" /\ node.hasData /\ node.ind = ESFS_INDIRECTION_L1
  /\ node.extents = ExtentList("A", 3) /\ node.bsize = SectorSize
  /\ rf.extnum = 2
  /\ rf.cur_start = U64(17) /\ rf.sector = U64(17)

\* a negative delta has been added: the cursor stands below where it stood
C17_NegativeDeltaApplied ==
  /\ pc = "disk" /\ node.hasData /\ node.ind = ESFS_INDIRECTION_L1
  /\ node.extents = ExtentList("B", 2)
  /\ rf.extnum = 1
  /\ rf.cur_start = U64(5)

\* find_attribute as specified: from `off` on, the first attribute of the
\* type that is at least min_size long, or none at the end of the list and
\* at the first attribute that is out of place, too short or too long
RECURSIVE find_attribute(_, _, _, _)
find_attribute(e, off, type, min_size) ==
  IF off + AttrHeaderSize > DirentrySize \/ off % 8 # 0 THEN NoAttribute
  ELSE LET size == LE16(e, off + 2)
       IN  IF size < AttrHeaderSize \/ off + size > DirentrySize THEN NoAttribute
           ELSE IF LE16(e, off) = type /\ size >= min_size THEN off
           ELSE find_attribute(e, off + size, type, min_size)

\* what get_direntry_attribute returned is what find_attribute specifies,
\* and-if an attribute-one that is in place, of the type, long enough and
\* inside the entry
FoundAsSpecified ==
  /\ found.result = find_attribute(direntry, DirentryAttributeOffset(direntry),
                                   found.attrid, found.minsize)
  /\ found.result # NoAttribute
       => LET off == found.result
              size == LE16(direntry, off + 2)
          IN  /\ off % 8 = 0
              /\ LE16(direntry, off) = found.attrid
              /\ size >= AttrHeaderSize /\ size >= found.minsize
              /\ off + size <= DirentrySize

C13_RefusedBeforeAnyRead ==
  LET notDir == DirentryNodeType(direntry) # ESFS_NODE_TYPE_DIRECTORY
      large  == ULe(TwoTo31, DirentryFileSize(direntry))
      error  == IF notDir THEN NotADirectory ELSE DirectoryTooLarge
  IN  pc \notin {"idle", "it_call"} /\ (notDir \/ large) =>
        /\ pc = "it_ret"
        /\ grub_errno = error
        /\ it.ret = error.code
        /\ it.visits = <<>>
        /\ it.iter = 0
        /\ it.reads = 0
        /\ nreads = 0

C13_ExactlyTwoTo31Refused ==
  /\ pc = "it_ret"
  /\ DirentryNodeType(direntry) = ESFS_NODE_TYPE_DIRECTORY
  /\ DirentryFileSize(direntry) = TwoTo31
  /\ grub_errno = DirectoryTooLarge

\* a slot as the specification judges it: signature, a FILENAME attribute
\* whose name lies within it, and the type of a file or of a directory
SlotValid(e) ==
  LET f == find_attribute(e, LE16(e, 28), ESFS_ATTRIBUTE_FILENAME, 8)
  IN  /\ esfs_check_direntry(e)
      /\ f # NoAttribute
      /\ LE16(e, f + 2) >= 8
      /\ LE16(e, f + 4) <= LE16(e, f + 2) - 8
      /\ DirentryNodeType(e) \in {ESFS_NODE_TYPE_FILE, ESFS_NODE_TYPE_DIRECTORY}

\* C14: hook is called for exactly the valid slots of the directory, in
\* ascending order and once each, up to the first for which it returns true;
\* invalid slots are passed over without an error and without moving the
\* slots after them; once hook has returned true no slot is read or visited.
\* The directories are those whose records hold all of fileSize in whole
\* slots, walked with no allocation failing.
C14_VisitsAreTheValidSlots ==
  LET whole   == /\ node.nodeType = ESFS_NODE_TYPE_DIRECTORY
                 /\ node.ind = ESFS_INDIRECTION_L1
                 /\ node.fileSize = U64(DirentrySize * Len(node.slots))
                 /\ \A j \in 1..Len(node.extents) : node.extents[j].delta < 100
      valid   == SelectSeq([j \in 1..Len(node.slots) |-> j - 1],
                           LAMBDA j : SlotValid(SlotLibrary[node.slots[j + 1]]))
      visited == [j \in 1..Len(it.visits) |-> it.visits[j].slot]
  IN  whole /\ pc = "it_ret" /\ ~it.failed /\ grub_errno = NoError =>
        /\ it.ret = "0" => visited = valid
        /\ it.ret = "1" =>
              /\ Len(visited) >= 1
              /\ Len(visited) <= Len(valid)
              /\ visited = SubSeq(valid, 1, Len(visited))
              /\ it.reads = visited[Len(visited)] + 1

\* C18: every entry handed to hook is 1024 bytes that grub_esfs_read_file
\* delivered in full from a slot lying within fileSize; a slot read short is
\* neither validated against what the buffer held before nor handed over.
C18_VisitedEntriesWereFullyRead ==
  \A j \in 1..Len(it.visits) :
    /\ it.visits[j].got = U64(DirentrySize)
    /\ DirentrySize * (it.visits[j].slot + 1) <= ToNat(it.dirSize)

\* C20: the name allocated for a call of hook is freed once hook has
\* returned, whatever it returned; no name is live when the walk returns.
C20_NamesReleased ==
  pc \in {"it_loop", "it_ret"} => it.names = 0

\* in an entry with the signature, every turn of the loop of
\* get_direntry_attribute moves `off` on by at least `step`, and there are
\* no more turns than 8-byte steps from attributeOffset to the end, plus one
TrailAdvances(e, attrid, minsize, step) ==
  LET ao == LE16(e, 28)
      t  == AttributeTrail(e, ao, attrid, minsize)
  IN  esfs_check_direntry(e) =>
      /\ \A j \in 1..(Len(t) - 1) : t[j + 1] >= t[j] + step
      /\ Len(t) <= (IF ao > DirentrySize - AttrHeaderSize THEN 0
                    ELSE (DirentrySize - ao) \div 8 + 1)
      /\ Len(t) <= 128

LoopsBounded(step) ==
  LET turns == (ToNat(it.dirSize) + DirentrySize - 1) \div DirentrySize
  IN  /\ TrailAdvances(it.last, ESFS_ATTRIBUTE_FILENAME, 8, step)
      /\ TrailAdvances(direntry, ESFS_ATTRIBUTE_DATA, AttrDataSize, step)
      /\ rf.extnum <= rf.count
      /\ rf.count <= 65535
      /\ it.iter <= turns
      /\ turns <= 2097152

\* C19 as stated: the loops are bounded, the offset of the attribute walk
\* growing by at least 8 at every turn.
C19_LoopsBoundedStepEight == LoopsBounded(8)

\* C19: the loops are bounded: the offset of the attribute walk grows by the
\* size of the attribute passed, at least 4, and the walk takes no more than
\* 128 turns; the extent walk takes no more than `count` turns; the walk of
\* a directory takes no more than ceil(fileSize / 1024) <= 2^21 turns.
C19_LoopsBounded == LoopsBounded(4)

C19_FourByteAttributePassed ==
  /\ pc = "it_ret"
  /\ it.ret = "0"
  /\ it.iter = 1
  /\ it.last = SlotLibrary[7]
  /\ AttributeTrail(it.last, LE16(it.last, 28), ESFS_ATTRIBUTE_FILENAME, 8) = <<96, 100>>

(***************************************************************************)
(* Properties of the entry points                                          *)
(***************************************************************************)
\* C15: between calls of the entry points, however each of them ended, the
\* volumes allocated and not freed are as many as the files open, and so
\* are the references held on the module; an open that failed leaves both
\* counts as they were when it was called.
C15_VolumesAndReferencesMatchHandles ==
  pc = "idle" =>
    /\ heap = Len(facade.open)
    /\ facade.refs = Len(facade.open)
    /\ facade.last = [op |-> "open", ok |-> FALSE] =>
          /\ heap = facade.before.heap
          /\ facade.refs = facade.before.refs
          /\ Len(facade.open) = facade.before.handles

C15_OpenFailedBesideAnOpenFile ==
  /\ pc = "idle"
  /\ facade.last = [op |-> "open", ok |-> FALSE]
  /\ grub_errno = NotFound
  /\ Len(facade.open) = 1
  /\ heap = 1
  /\ facade.refs = 1
====
